---- MODULE Spec2Model ----
(***************************************************************************)
(* The conversation orchestrator of backend/app/graph.py (build_graph):    *)
(* one LangGraph thread (session) whose state is kept by the InMemorySaver *)
(* checkpointer between turns, driven turn after turn by the transport     *)
(* entry points of backend/app/main.py.                                    *)
(*                                                                         *)
(* Spec is the graph alone, invoked turn after turn.  Service is the graph *)
(* behind the handlers /chat and /process_speech of main.py: requests that *)
(* arrive while a turn is under way, calls of the model that raise, and    *)
(* the response each handler returns.  ServiceFair adds the assumption     *)
(* that the model and the database answer.  Sessions is the service with   *)
(* requests of two session ids, each with its own thread in the            *)
(* checkpointer.                                                           *)
(*                                                                         *)
(* Text is modelled as a sequence of tokens (the words of the string, in   *)
(* order, separated by blanks).  The character-level operations of the     *)
(* code (upper, startswith, in, find, replace, strip, re.search) are       *)
(* modelled token by token; a token whose characters matter to one of them *)
(* (a word that merely begins with SELECT, a literal that contains LIMIT   *)
(* or "ite") is listed in the tables below.                                *)
(***************************************************************************)
EXTENDS Integers, Sequences, FiniteSets, TLC

\* ------------------------------------------------------------------ bounds

\* Number of utterances (graph invocations) of the session that are explored.
MaxTurns == 3

\* Largest integer that int() is asked to parse out of a LIMIT/OFFSET clause.
MaxInt == 40

\* ------------------------------------------------------------------ text

\* None / an absent key of the state dict, for the text-valued keys.
None == <<"<None>">>

\* None / an absent key, for the integer-valued keys.
Unset == -1

\* A line break (white space that str.strip() removes at either end).
NL == "<newline>"

\* str(n) as formatted by an f-string.
Str(n) == ToString(n)

NumToks == { Str(n) : n \in 0..MaxInt }

\* re: the token is matched whole by \d+
IsNum(t) == t \in NumToks

\* int(t) for a token of digits.
ToInt(t) == CHOOSE n \in 0..MaxInt : Str(n) = t

\* str.upper() of one token (tokens without lower-case letters are fixed).
UpperTok(t) ==
    CASE t = "select"      -> "SELECT"
      [] t = "Select"      -> "SELECT"
      [] t = "limit"       -> "LIMIT"
      [] t = "offset"      -> "OFFSET"
      [] t = "selected"    -> "SELECTED"
      [] t = "'%limit%'"   -> "'%LIMIT%'"
      [] t = "'%Wh%'"      -> "'%WH%'"
      [] t = "'%White%'"   -> "'%WHITE%'"
      [] t = "'%Delhi%'"   -> "'%DELHI%'"
      [] t = "hospitals"   -> "HOSPITALS"
      [] t = "wards"       -> "WARDS"
      [] t = "ite"         -> "ITE"
      [] t = "clarify"     -> "CLARIFY"
      [] t = "pagination"  -> "PAGINATION"
      [] t = "greeting"    -> "GREETING"
      [] t = "reject"      -> "REJECT"
      [] t = "unclear"     -> "UNCLEAR"
      [] t = "search"      -> "SEARCH"
      [] t = "Searching"   -> "SEARCHING"
      [] t = "Rejected"    -> "REJECTED"
      [] OTHER             -> t

\* "SELECT" in T, for one upper-case token T (a substring test on characters).
HasSELECT(T) == T \in {"SELECT", "SELECTED"}

\* T.startswith("SELECT"), for one upper-case token T (a prefix test).
PrefixSELECT(T) == T \in {"SELECT", "SELECTED"}

\* "LIMIT" in T, for one upper-case token T (a substring test on characters).
HasLIMIT(T) == T \in {"LIMIT", "'%LIMIT%'"}

\* "PAGINATION" in T, for one upper-case token T.
HasPAGINATION(T) == T = "PAGINATION"

\* T.startswith(keyword), for one upper-case token T and a keyword of the
\* intent router.
HasPrefix(T, keyword) ==
    \/ T = keyword
    \/ T = "SEARCHING" /\ keyword = "SEARCH"
    \/ T = "REJECTED" /\ keyword = "REJECT"

\* str.strip(): white space removed at both ends.
RECURSIVE LStrip(_)
LStrip(s) == IF s # <<>> /\ Head(s) = NL THEN LStrip(Tail(s)) ELSE s

RECURSIVE RStrip(_)
RStrip(s) ==
    IF s # <<>> /\ s[Len(s)] = NL THEN RStrip(SubSeq(s, 1, Len(s) - 1)) ELSE s

Strip(s) == RStrip(LStrip(s))

\* The two replace() calls that delete the code fences.  "<fence-sql>" is a
\* fence opened with the language tag sql, "<fence>" a bare fence; of
\* "<fence-sqlite>" (a fence tagged sqlite) the characters "ite" are left.
RECURSIVE RemoveFences(_)
RemoveFences(s) ==
    IF s = <<>> THEN <<>>
    ELSE LET t == Head(s)
             r == RemoveFences(Tail(s))
         IN  CASE t \in {"<fence-sql>", "<fence>"} -> r
               [] t = "<fence-sqlite>"            -> <<"ite">> \o r
               [] OTHER                           -> <<t>> \o r

\* .replace("ite", "") : the characters "ite" disappear wherever they stand,
\* inside a string literal too.
RECURSIVE RemoveIte(_)
RemoveIte(s) ==
    IF s = <<>> THEN <<>>
    ELSE LET t == Head(s)
             r == RemoveIte(Tail(s))
         IN  CASE t = "ite"       -> r
               [] t = "'%White%'" -> <<"'%Wh%'">> \o r
               [] OTHER           -> <<t>> \o r

\* "SELECT" in sql.upper()
ContainsSELECT(s) == \E i \in DOMAIN s : HasSELECT(UpperTok(s[i]))

\* sql[sql.upper().find("SELECT"):]
FromSELECT(s) ==
    LET i == CHOOSE i \in DOMAIN s :
                 /\ HasSELECT(UpperTok(s[i]))
                 /\ \A j \in 1..(i - 1) : ~HasSELECT(UpperTok(s[j]))
    IN  SubSeq(s, i, Len(s))

\* "LIMIT" in sql.upper()
ContainsLIMIT(s) == \E i \in DOMAIN s : HasLIMIT(UpperTok(s[i]))

\* The positions where re.search(r'LIMIT\s+(\d+)', sql.upper()) can match:
\* the characters LIMIT at the end of a token, white space, a number.
LimitMatches(s) ==
    { i \in 1..(Len(s) - 1) : UpperTok(s[i]) = "LIMIT" /\ IsNum(s[i + 1]) }

\* query.upper().startswith("SELECT")
StartsWithSELECT(s) == s # <<>> /\ PrefixSELECT(UpperTok(s[1]))

\* "PAGINATION" in remarks.strip().upper()
ContainsPAGINATION(s) ==
    \E i \in DOMAIN Strip(s) : HasPAGINATION(UpperTok(Strip(s)[i]))

\* ------------------------------------------------------------------ state

VARIABLES
    messages,        \* State.messages: the history, oldest first
    sql_query,       \* State.sql_query
    db_result,       \* State.db_result
    error,           \* State.error
    retry_count,     \* State.retry_count
    intent,          \* State.intent
    router_remarks,  \* State.router_remarks
    last_limit,      \* State.last_limit
    last_offset,     \* State.last_offset
    last_sql,        \* State.last_sql
    pc,              \* the node the graph runs next; "END" between two turns
    turn,            \* the number of invocations of the graph so far
    executed,        \* what the last execute_sql_node handed to cursor.execute
    nFail,           \* runs of execute_sql_node in this turn that set error
    path,            \* the nodes run in the current turn, in order
    generated,       \* what generate_sql_node stored as sql_query in this turn
    before,          \* the pagination cursor as it stood when the turn began
    classified,      \* the classifier's completion of this turn, stripped
    snapshot,        \* the state of the thread when the handler invoked the graph
    raised,          \* str(e) of the exception agent_graph.invoke raised, if any
    endpoint,        \* the handler that is past its await: "chat", "speech", "none"
    reply,           \* what that handler returned to its caller
    waiting,         \* requests suspended at the await that opens their handler
    running,         \* handlers past that await that have not returned
    speech_result,   \* the utterance in the request the handler last read
    session,         \* the session id (thread_id) the state variables belong to
    store,           \* InMemorySaver: thread_id -> the state kept for the thread
    mine             \* session id -> the state as the session's last turn left it

\* The variables of backend/app/main.py.
\* The checkpointer and the session being served.
threads == << session, store, mine >>

transport == << snapshot, raised, endpoint, reply, waiting, running,
                speech_result, threads >>

vars == << messages, sql_query, db_result, error, retry_count, intent,
           router_remarks, last_limit, last_offset, last_sql, pc, turn,
           executed, nFail, path, generated, before, classified, transport >>

\* The pagination cursor.
cursor == [last_sql |-> last_sql, last_limit |-> last_limit,
           last_offset |-> last_offset]

\* ------------------------------------------------------------------ texts

\* The default page size.
DefaultLimit == 5

\* The schema's table and a well-formed query on it, as the model writes one.
Query == <<"SELECT", "*", "FROM", "hospitals", "WHERE", "CITY", "LIKE", "'%Delhi%'">>

\* A query whose literal holds the characters "ite" (Whitefield).
WhiteQuery == <<"SELECT", "*", "FROM", "hospitals", "WHERE", "CITY", "LIKE", "'%White%'">>

FallbackReply == <<"I didn't quite catch that. Are you looking for hospital information?">>

DefaultRemarks == <<"Limit", "to", "5", "results.">>

SecurityError == <<"Only SELECT queries are allowed.">>

NoResults == <<"No results found.">>

FailureMsg == <<"I'm having trouble accessing the database right now. Please try again.">>

\* str(formatted): the rows of a non-empty result set.
Rows == <<"[{'HOSPITAL NAME': 'A', 'Address': 'B', 'CITY': 'Delhi'}]">>

\* str(e) of the exceptions sqlite3 raises.
NoSuchTable == <<"no such table: wards">>

SyntaxError == <<"near \"SELECTED\": syntax error">>

DatabaseLocked == <<"database is locked">>

HumanMessage(n) == [role |-> "human", content |-> <<"utterance", Str(n)>>]

AIMessage(c) == [role |-> "ai", content |-> c]

\* ------------------------------------------------------------------ the model's completions

\* What llm.invoke may return to classify_intent_node.
ClassifierCompletions ==
    { <<"reject", ":", NL, "out of scope", NL>>,
      <<"Sure, let me look that up.">>,
      <<"PAGINATION">>,
      <<"SEARCH", "|", "hospitals in Delhi">> }

\* What llm.invoke may return to generate_sql_node when it was instructed to
\* apply LIMIT lim (and, on a pagination continuation, OFFSET off).
GenCompletions(lim, off) ==
    { Query,
      Query \o <<"LIMIT", Str(lim)>>,
      Query \o <<"LIMIT", Str(lim), "OFFSET", Str(off)>>,
      <<"Here it is:", "<fence-sql>", NL>> \o WhiteQuery \o <<"limit", "2", NL, "<fence>">>,
      <<NL, "CLARIFY", NL>>,
      <<"DROP", "TABLE", "hospitals">>,
      <<"select", "*", "FROM", "wards">>,
      <<"SELECTED", "*", "FROM", "hospitals">>,
      <<"SELECT", "*", "FROM", "hospitals", "WHERE", "CITY", "LIKE", "'%limit%'">> }

\* What llm.invoke may return to repair_sql_node.
RepairCompletions ==
    { <<"<fence-sql>", NL>> \o Query \o <<NL, "<fence>">>,
      <<"select", "*", "FROM", "wards">>,
      <<"DROP", "TABLE", "hospitals">>,
      <<"CLARIFY">> }

\* What llm.invoke may return to synthesize_node.
SynthCompletions == { <<"Number one, A in Delhi.">> }

\* ------------------------------------------------------------------ the database

\* What cursor.execute(query) and fetchall() do on the read-only database
\* for a query the gate let through: rows, no rows, or an exception.
DbOutcomes(query) ==
    IF UpperTok(query[1]) # "SELECT"
        THEN { [ok |-> FALSE, text |-> SyntaxError] }
    ELSE IF \E i \in DOMAIN query : query[i] = "wards"
        THEN { [ok |-> FALSE, text |-> NoSuchTable] }
    ELSE { [ok |-> TRUE, text |-> Rows],
           [ok |-> TRUE, text |-> NoResults],
           [ok |-> FALSE, text |-> DatabaseLocked] }

\* ------------------------------------------------------------------ routing

route_intent(i) ==
    IF i = "search" THEN "generate_sql"
    ELSE IF i \in {"direct", "handoff"} THEN "direct_response"
    ELSE "direct_response"

\* state.get("retry_count", 0)
GetRetryCount(rc) == IF rc = Unset THEN 0 ELSE rc

\* The router with the ceiling off by one.
route_execution_ceiling3(q, e, rc) ==
    IF q = <<"CLARIFY">> THEN "synthesize"
    ELSE IF e # None /\ e # <<>>
        THEN IF GetRetryCount(rc) >= 3 THEN "synthesize_failure" ELSE "repair_sql"
    ELSE "synthesize"

\* The router with the test for the sentinel after the test for an error.
route_execution_error_first(q, e, rc) ==
    IF e # None /\ e # <<>>
        THEN IF GetRetryCount(rc) >= 2 THEN "synthesize_failure" ELSE "repair_sql"
    ELSE "synthesize"

\* The router without the ceiling on repairs.
route_execution_no_ceiling(q, e, rc) ==
    IF q = <<"CLARIFY">> THEN "synthesize"
    ELSE IF e # None /\ e # <<>> THEN "repair_sql"
    ELSE "synthesize"

\* The router blind to the error of the execution.
route_execution_ignore_error(q, e, rc) == "synthesize"

route_execution(q, e, rc) ==
    IF q = <<"CLARIFY">> THEN "synthesize"
    ELSE IF e # None /\ e # <<>>
        THEN IF GetRetryCount(rc) >= 2 THEN "synthesize_failure" ELSE "repair_sql"
    ELSE "synthesize"

\* ------------------------------------------------------------------ the graph's driver

\* The state the checkpointer holds for the thread.
TurnState ==
    [messages |-> messages, sql_query |-> sql_query, db_result |-> db_result,
     error |-> error, retry_count |-> retry_count, intent |-> intent,
     router_remarks |-> router_remarks, last_sql |-> last_sql,
     last_limit |-> last_limit, last_offset |-> last_offset]

\* The invocation with State.messages declared without the add_messages
\* reducer: the input replaces the history.
InvokeGraph_no_reducer ==
    /\ turn' = turn + 1
    /\ messages' = << HumanMessage(turn + 1) >>
    /\ pc' = "classify_intent"
    /\ path' = <<>>
    /\ nFail' = 0
    /\ executed' = None
    /\ generated' = None
    /\ classified' = None
    /\ before' = cursor
    /\ UNCHANGED << sql_query, db_result, error, retry_count, intent,
                    router_remarks, last_limit, last_offset, last_sql >>

\* A thread the checkpointer holds nothing for.
EmptyThread ==
    [messages |-> <<>>, sql_query |-> None, db_result |-> None, error |-> None,
     retry_count |-> Unset, intent |-> "unset", router_remarks |-> None,
     last_sql |-> <<>>, last_limit |-> Unset, last_offset |-> Unset]

\* The session ids that requests carry: the form field session_id of /chat,
\* the CallSid of /process_speech.
SessionIds == { "session_a", "session_b" }

\* One thread_id for every request, whatever its session id.
ThreadOf_shared(s) == "session_a"

\* config = {"configurable": {"thread_id": session_id}}
ThreadOf(s) == s

\* The keys of InMemorySaver.
ThreadIds == { ThreadOf(s) : s \in SessionIds }

\* No response: the handler has not returned.
NoReply == [status |-> 0, say |-> None, then |-> "none"]

\* agent_graph.invoke(inputs, config): the utterance is added to the history
\* of the thread and the graph starts at classify_intent; every other key
\* keeps the value the checkpointer holds for the thread.
InvokeGraph ==
    /\ turn' = turn + 1
    /\ messages' = Append(messages, HumanMessage(turn + 1))
    /\ pc' = "classify_intent"
    /\ path' = <<>>
    /\ nFail' = 0
    /\ executed' = None
    /\ generated' = None
    /\ classified' = None
    /\ before' = cursor
    /\ UNCHANGED << sql_query, db_result, error, retry_count, intent,
                    router_remarks, last_limit, last_offset, last_sql >>

\* The graph invoked turn after turn, each turn after the one before it ended.
Invoke ==
    /\ pc = "END"
    /\ turn < MaxTurns
    /\ InvokeGraph
    /\ UNCHANGED transport

\* ------------------------------------------------------------------ the nodes

\* response.rsplit(sep, 1)[1].strip(): the text after the last separator.
AfterFirst_after_last(response, sep, default) ==
    IF \E i \in DOMAIN response : response[i] = sep
        THEN LET i == CHOOSE i \in DOMAIN response :
                          /\ response[i] = sep
                          /\ \A j \in (i + 1)..Len(response) : response[j] # sep
             IN  Strip(SubSeq(response, i + 1, Len(response)))
    ELSE default

\* response.split(sep, 1)[1].strip() if sep in response else response
AfterFirst(response, sep, default) ==
    IF \E i \in DOMAIN response : response[i] = sep
        THEN LET i == CHOOSE i \in DOMAIN response :
                          /\ response[i] = sep
                          /\ \A j \in 1..(i - 1) : response[j] # sep
             IN  Strip(SubSeq(response, i + 1, Len(response)))
    ELSE default

\* response_upper.startswith(keyword)
StartsWith(response, keyword) ==
    response # <<>> /\ HasPrefix(UpperTok(response[1]), keyword)

\* The router of the earlier draft (demo.py): a completion that begins with
\* no keyword defaults to a search.
classify_intent_node_default_search(completion) ==
    LET response == Strip(completion)
        clean_res == IF \E i \in DOMAIN response : response[i] = ":"
                         THEN Strip(SubSeq(response, 3, Len(response)))
                     ELSE response
    IN  IF \E k \in {"GREETING", "HANDOFF", "UNCLEAR", "REJECT"} :
               response # <<>> /\ UpperTok(response[1]) = k
            THEN [intent |-> IF UpperTok(response[1]) = "HANDOFF"
                                 THEN "handoff" ELSE "direct",
                  db_result |-> clean_res, router_remarks |-> None]
        ELSE IF response # <<>> /\ UpperTok(response[1]) = "PAGINATION"
            THEN [intent |-> "search", db_result |-> None,
                  router_remarks |-> <<"PAGINATION">>]
        ELSE [intent |-> "search", db_result |-> None,
              router_remarks |-> DefaultRemarks]

\* The dict classify_intent_node returns for a completion.
classify_intent_node(completion) ==
    LET response == Strip(completion)
        clean_res == AfterFirst(response, ":", response)
    IN  IF StartsWith(response, "GREETING")
            THEN [intent |-> "direct", db_result |-> clean_res, router_remarks |-> None]
        ELSE IF StartsWith(response, "HANDOFF")
            THEN [intent |-> "handoff", db_result |-> clean_res, router_remarks |-> None]
        ELSE IF StartsWith(response, "UNCLEAR")
            THEN [intent |-> "direct", db_result |-> clean_res, router_remarks |-> None]
        ELSE IF StartsWith(response, "REJECT")
            THEN [intent |-> "direct", db_result |-> clean_res, router_remarks |-> None]
        ELSE IF StartsWith(response, "PAGINATION")
            THEN [intent |-> "search", db_result |-> None,
                  router_remarks |-> <<"PAGINATION">>]
        ELSE IF StartsWith(response, "SEARCH")
            THEN [intent |-> "search", db_result |-> None,
                  router_remarks |-> AfterFirst(response, "|", DefaultRemarks)]
        ELSE [intent |-> "direct", db_result |-> FallbackReply, router_remarks |-> None]

\* A key the returned dict does not hold keeps its value (None above).
Written(new, old) == IF new = None THEN old ELSE new

\* classify_intent_node and the conditional edge that follows it, for the
\* completions of the set S.
ClassifyIntentOn(S) ==
    /\ pc = "classify_intent"
    /\ \E completion \in S :
          LET out == classify_intent_node(completion)
          IN  /\ intent' = out.intent
              /\ db_result' = Written(out.db_result, db_result)
              /\ router_remarks' = Written(out.router_remarks, router_remarks)
              /\ pc' = route_intent(out.intent)
              /\ classified' = Strip(completion)
    /\ path' = Append(path, "classify_intent")
    /\ UNCHANGED << messages, sql_query, error, retry_count, last_limit,
                    last_offset, last_sql, turn, executed, nFail, generated,
                    before, transport >>

ClassifyIntent == ClassifyIntentOn(ClassifierCompletions)

\* The direct reply that also starts the pagination cursor afresh.
DirectResponse_resets_cursor ==
    /\ pc = "direct_response"
    /\ messages' = Append(messages, AIMessage(db_result))
    /\ pc' = "END"
    /\ path' = Append(path, "direct_response")
    /\ last_sql' = <<>>
    /\ last_offset' = 0
    /\ UNCHANGED << sql_query, db_result, error, retry_count, intent,
                    router_remarks, last_limit, turn,
                    executed, nFail, generated, before, classified,
                    transport >>

DirectResponse ==
    /\ pc = "direct_response"
    /\ messages' = Append(messages, AIMessage(db_result))
    /\ pc' = "END"
    /\ path' = Append(path, "direct_response")
    /\ UNCHANGED << sql_query, db_result, error, retry_count, intent,
                    router_remarks, last_limit, last_offset, last_sql, turn,
                    executed, nFail, generated, before, classified,
                    transport >>

\* state.get("last_limit", 5)
GetLastLimit(l) == IF l = Unset THEN DefaultLimit ELSE l

\* state.get("last_offset", 0)
GetLastOffset(o) == IF o = Unset THEN 0 ELSE o

\* state.get("router_remarks", "")
GetRemarks(r) == IF r = None THEN <<>> ELSE r

\* is_pagination
IsPagination(remarks) == ContainsPAGINATION(GetRemarks(remarks))

\* is_pagination and last_sql
IsContinuation(remarks, lsql) == IsPagination(remarks) /\ lsql # <<>>

\* current_offset, stepping by the default page size.
CurrentOffset_default_step(remarks, lsql, llimit, loffset) ==
    IF IsContinuation(remarks, lsql)
        THEN GetLastOffset(loffset) + DefaultLimit
    ELSE 0

\* current_offset, without the test for a previous query.
CurrentOffset_no_last_sql(remarks, lsql, llimit, loffset) ==
    IF IsPagination(remarks)
        THEN GetLastOffset(loffset) + GetLastLimit(llimit)
    ELSE 0

\* current_offset
CurrentOffset(remarks, lsql, llimit, loffset) ==
    IF IsContinuation(remarks, lsql)
        THEN GetLastOffset(loffset) + GetLastLimit(llimit)
    ELSE 0

\* response.content.replace(...).replace(...).replace("ite", "").strip()
CleanGenerated(completion) == Strip(RemoveIte(RemoveFences(completion)))

\* if "SELECT" in sql.upper(): sql = sql[sql.upper().find("SELECT"):]
CutToSELECT(sql) == IF ContainsSELECT(sql) THEN FromSELECT(sql) ELSE sql

\* if "LIMIT" not in sql.upper(): sql += ...
EnforceLimit(sql, is_pagination, current_limit, current_offset) ==
    IF ~ContainsLIMIT(sql)
        THEN IF is_pagination
                 THEN sql \o <<"LIMIT", Str(current_limit), "OFFSET", Str(current_offset)>>
             ELSE sql \o <<"LIMIT", Str(current_limit)>>
    ELSE sql

\* limit_match = re.search(...); if limit_match: current_limit = int(group(1))
SyncLimit(sql, current_limit) ==
    IF LimitMatches(sql) # {}
        THEN LET i == CHOOSE i \in LimitMatches(sql) :
                          \A j \in LimitMatches(sql) : i <= j
             IN  ToInt(sql[i + 1])
    ELSE current_limit

\* generate_sql_node and the edge to execute_sql, for the completions of S.
GenerateSqlOn(S) ==
    /\ pc = "generate_sql"
    /\ LET current_limit == GetLastLimit(last_limit)
           is_pagination == IsPagination(router_remarks)
           current_offset == CurrentOffset(router_remarks, last_sql, last_limit, last_offset)
       IN  \E completion \in S :
              LET cleaned == CleanGenerated(completion)
                  sql == EnforceLimit(CutToSELECT(cleaned), is_pagination,
                                      current_limit, current_offset)
              IN  IF cleaned = <<"CLARIFY">>
                      THEN /\ sql_query' = <<"CLARIFY">>
                           /\ generated' = <<"CLARIFY">>
                           /\ UNCHANGED << last_limit, last_offset, last_sql >>
                  ELSE /\ sql_query' = sql
                       /\ generated' = sql
                       /\ last_limit' = SyncLimit(sql, current_limit)
                       /\ last_offset' = current_offset
                       /\ last_sql' = sql
    /\ error' = None
    /\ retry_count' = 0
    /\ pc' = "execute_sql"
    /\ path' = Append(path, "generate_sql")
    /\ UNCHANGED << messages, db_result, intent, router_remarks, turn,
                    executed, nFail, before, classified,
                    transport >>

\* The limit and the offset generate_sql_node puts in its instruction.
PromptLimit == GetLastLimit(last_limit)

PromptOffset == CurrentOffset(router_remarks, last_sql, last_limit, last_offset)

GenerateSql == GenerateSqlOn(GenCompletions(PromptLimit, PromptOffset))

\* execute_sql_node without its gate.
GateRejects_never(query) == FALSE

\* The security gate of execute_sql_node.
GateRejects(query) == ~StartsWithSELECT(query)

ExecuteSql ==
    /\ pc = "execute_sql"
    /\ IF GateRejects(sql_query)
           THEN /\ error' = SecurityError
                /\ db_result' = None
                /\ executed' = None
                /\ nFail' = nFail + 1
       ELSE \E out \in DbOutcomes(sql_query) :
                /\ executed' = sql_query
                /\ IF out.ok
                       THEN /\ db_result' = out.text
                            /\ error' = None
                            /\ nFail' = nFail
                   ELSE /\ error' = out.text
                        /\ db_result' = None
                        /\ nFail' = nFail + 1
    /\ pc' = route_execution(sql_query, error', retry_count)
    /\ path' = Append(path, "execute_sql")
    /\ UNCHANGED << messages, sql_query, retry_count, intent, router_remarks,
                    last_limit, last_offset, last_sql, turn, generated, before, classified,
                    transport >>

\* response.content.replace(...).replace(...).strip()
CleanRepaired(completion) == Strip(RemoveFences(completion))

\* repair_sql_node leaving retry_count as it was.
RepairSqlOn_keep_count(R) ==
    /\ pc = "repair_sql"
    /\ \E completion \in R :
          sql_query' = Strip(completion)
    /\ error' = None
    /\ retry_count' = retry_count
    /\ pc' = "execute_sql"
    /\ path' = Append(path, "repair_sql")
    /\ UNCHANGED << messages, db_result, intent, router_remarks, last_limit,
                    last_offset, last_sql, turn, executed, nFail, generated,
                    before, classified, transport >>

\* repair_sql_node and the edge to execute_sql, for the completions of R.
RepairSqlOn(R) ==
    /\ pc = "repair_sql"
    /\ \E completion \in R :
          sql_query' = CleanRepaired(completion)
    /\ error' = None
    /\ retry_count' = retry_count + 1
    /\ pc' = "execute_sql"
    /\ path' = Append(path, "repair_sql")
    /\ UNCHANGED << messages, db_result, intent, router_remarks, last_limit,
                    last_offset, last_sql, turn, executed, nFail, generated, before, classified,
                    transport >>

RepairSql == RepairSqlOn(RepairCompletions)

\* SystemMessage(content=prompt) of synthesize_node.
SynthesisPrompt == [role |-> "system", content |-> <<"<synthesis prompt>">>]

\* The system prompt followed by the whole history.
SynthesisInput_whole_history(history) == << SynthesisPrompt >> \o history

\* messages = [SystemMessage(content=prompt), state["messages"][-1]]
SynthesisInput(history) == << SynthesisPrompt, history[Len(history)] >>

Synthesize ==
    /\ pc = "synthesize"
    /\ \E completion \in SynthCompletions :
          messages' = Append(messages, AIMessage(completion))
    /\ pc' = "END"
    /\ path' = Append(path, "synthesize")
    /\ UNCHANGED << sql_query, db_result, error, retry_count, intent,
                    router_remarks, last_limit, last_offset, last_sql, turn,
                    executed, nFail, generated, before, classified,
                    transport >>

\* synthesize_failure_node replying with the text of the error.
SynthesizeFailure_raw_error ==
    /\ pc = "synthesize_failure"
    /\ messages' = Append(messages, AIMessage(error))
    /\ pc' = "END"
    /\ path' = Append(path, "synthesize_failure")
    /\ UNCHANGED << sql_query, db_result, error, retry_count, intent,
                    router_remarks, last_limit, last_offset, last_sql, turn,
                    executed, nFail, generated, before, classified,
                    transport >>

SynthesizeFailure ==
    /\ pc = "synthesize_failure"
    /\ messages' = Append(messages, AIMessage(FailureMsg))
    /\ pc' = "END"
    /\ path' = Append(path, "synthesize_failure")
    /\ UNCHANGED << sql_query, db_result, error, retry_count, intent,
                    router_remarks, last_limit, last_offset, last_sql, turn,
                    executed, nFail, generated, before, classified,
                    transport >>

\* ------------------------------------------------------------------ specification

Init ==
    /\ messages = <<>>
    /\ sql_query = None
    /\ db_result = None
    /\ error = None
    /\ retry_count = Unset
    /\ intent = "unset"
    /\ router_remarks = None
    /\ last_limit = Unset
    /\ last_offset = Unset
    /\ last_sql = <<>>
    /\ pc = "END"
    /\ turn = 0
    /\ executed = None
    /\ nFail = 0
    /\ path = <<>>
    /\ generated = None
    /\ before = [last_sql |-> <<>>, last_limit |-> Unset, last_offset |-> Unset]
    /\ classified = None
    /\ snapshot = EmptyThread
    /\ raised = None
    /\ endpoint = "none"
    /\ reply = NoReply
    /\ waiting = 0
    /\ running = 0
    /\ speech_result = None
    /\ session = "session_a"
    /\ store = [t \in ThreadIds |-> EmptyThread]
    /\ mine = [s \in SessionIds |-> EmptyThread]

Next ==
    \/ Invoke
    \/ ClassifyIntent
    \/ DirectResponse
    \/ GenerateSql
    \/ ExecuteSql
    \/ RepairSql
    \/ Synthesize
    \/ SynthesizeFailure

Spec == Init /\ [][Next]_vars

\* ------------------------------------------------------------------ the service

\* Number of requests of the session (to /chat or /process_speech) explored.
MaxRequests == 2

\* str(e) of the exception llm.invoke raises when the gateway fails.
GatewayError == <<"429 Resource has been exhausted (e.g. check quota).">>

ConnectTrouble == <<"I'm having trouble connecting to my database right now. Please try again later.">>

HoldMsg == <<"I understand. Please hold while I transfer you to a human agent.">>

\* The replies the prompt of the intent router dictates.
GreetingText == "Hello! I am Loop AI. How can I help you find a hospital today?"

HandoffText == "Please hold while I transfer you."

RejectText == "I'm sorry, I can't help with that. I am forwarding this to a human agent."

\* What llm.invoke may return to classify_intent_node: every keyword of the
\* router, in the form the prompt asks for or near it, and completions that
\* begin with none.
ServiceClassifierCompletions ==
    { <<"GREETING", ":", GreetingText>>,
      <<"HANDOFF", ":", HandoffText>>,
      <<"REJECT", ":", RejectText>>,
      <<"REJECT", ":", "I'm sorry, I can only help with finding hospitals.">>,
      <<"unclear", ":", NL, "Could you repeat", ":", "the city?", NL>>,
      <<"Sure, let me look that up.">>,
      <<"I will", "SEARCH", "|", "hospitals in Delhi">>,
      <<>>,
      <<"PAGINATION">>,
      <<NL, "Searching", "|", "hospitals in Delhi">> }

\* What llm.invoke may return to generate_sql_node and to repair_sql_node.
ServiceGenCompletions(lim, off) ==
    { Query \o <<"LIMIT", Str(lim)>>,
      <<"CLARIFY">>,
      <<"select", "*", "FROM", "wards">> }

ServiceRepairCompletions ==
    { Query, <<"select", "*", "FROM", "wards">> }

\* The handlers with def in place of async def: each request served by a
\* thread of the pool.
LoopIsFree_threadpool == TRUE

\* chat_endpoint and process_speech are coroutines that call
\* agent_graph.invoke without awaiting anything from there to their return:
\* the event loop resumes no other handler while one is in that stretch.
LoopIsFree == running = 0

\* A request for the session reaches the server; its handler runs up to its
\* first await (audio_file.read(), request.form()).
Arrive ==
    /\ turn + waiting < MaxRequests
    /\ waiting' = waiting + 1
    /\ UNCHANGED << messages, sql_query, db_result, error, retry_count, intent,
                    router_remarks, last_limit, last_offset, last_sql, pc, turn,
                    executed, nFail, path, generated, before, classified,
                    snapshot, raised, endpoint, reply, running,
                    speech_result, threads >>

\* The handler e resumes after its await and calls agent_graph.invoke with
\* the session id as thread_id; the request is one of the session the state
\* variables belong to.
Handle(e) ==
    /\ waiting > 0
    /\ LoopIsFree
    /\ waiting' = waiting - 1
    /\ running' = running + 1
    /\ endpoint' = e
    /\ snapshot' = TurnState
    /\ raised' = None
    /\ reply' = NoReply
    /\ InvokeGraph
    /\ UNCHANGED threads

\* What the caller said, as the speech recogniser transcribed it.
Utterance == <<"utterance">>

\* The SpeechResult fields Twilio may post: nothing was recognised, or an
\* utterance.
SpeechResults == { <<>>, Utterance }

ChatEndpoint == Handle("chat") /\ speech_result' = Utterance

\* The test for silence that takes every request for speech.
NotSpeech_never(speech) == FALSE

\* if not speech_result
NotSpeech(speech) == speech = <<>>

RepeatPrompt == <<"I'm sorry, I didn't quite catch that. Could you repeat?">>

\* The branch of process_speech for an empty SpeechResult: a new Gather that
\* asks the caller to repeat, and the handler returns.
Reprompt ==
    /\ waiting > 0
    /\ LoopIsFree
    /\ waiting' = waiting - 1
    /\ reply' = [status |-> 200, say |-> RepeatPrompt, then |-> "gather"]
    /\ UNCHANGED << messages, sql_query, db_result, error, retry_count, intent,
                    router_remarks, last_limit, last_offset, last_sql, pc, turn,
                    executed, nFail, path, generated, before, classified,
                    snapshot, raised, endpoint, running, threads >>

ProcessSpeech ==
    \E speech \in SpeechResults :
        /\ speech_result' = speech
        /\ IF NotSpeech(speech) THEN Reprompt ELSE Handle("speech")

ServiceClassifyIntent == ClassifyIntentOn(ServiceClassifierCompletions)

ServiceGenerateSql ==
    GenerateSqlOn(ServiceGenCompletions(PromptLimit, PromptOffset))

ServiceRepairSql == RepairSqlOn(ServiceRepairCompletions)

\* The nodes that call llm.invoke.
LlmNodes == {"classify_intent", "generate_sql", "repair_sql", "synthesize"}

\* llm.invoke raises in the node the graph is at: the node returns nothing,
\* agent_graph.invoke raises, and the checkpointer keeps for the thread what
\* the nodes before it wrote.
GatewayRaises ==
    /\ pc \in LlmNodes
    /\ raised' = GatewayError
    /\ pc' = "END"
    /\ UNCHANGED << messages, sql_query, db_result, error, retry_count, intent,
                    router_remarks, last_limit, last_offset, last_sql, turn,
                    executed, nFail, path, generated, before, classified,
                    snapshot, endpoint, reply, waiting, running,
                    speech_result, threads >>

\* result["messages"][-1].content
ai_message == messages[Len(messages)].content

\* "I am forwarding this to a human agent" in ai_message
HasForwarding(c) == \E i \in DOMAIN c : c[i] = RejectText

\* "HANDOFF" in ai_message or "transfer" in ai_message.lower()
HasHandoff(c) == \E i \in DOMAIN c : c[i] \in {"HANDOFF", HandoffText}

\* What chat_endpoint returns: the answer as speech, or HTTP 500 with
\* detail=str(e).
ChatResponse ==
    IF raised # None
        THEN [status |-> 500, say |-> raised, then |-> "error"]
    ELSE [status |-> 200, say |-> ai_message, then |-> "audio"]

\* The TwiML process_speech returns.
SpeechResponse ==
    IF raised # None
        THEN [status |-> 200, say |-> ConnectTrouble, then |-> "hangup"]
    ELSE IF HasForwarding(ai_message)
        THEN [status |-> 200, say |-> ai_message, then |-> "hangup"]
    ELSE IF HasHandoff(ai_message)
        THEN [status |-> 200, say |-> HoldMsg, then |-> "dial"]
    ELSE [status |-> 200, say |-> ai_message, then |-> "gather"]

\* agent_graph.invoke has returned or raised: the handler builds its
\* response and returns.
Return ==
    /\ pc = "END"
    /\ running > 0
    /\ reply' = IF endpoint = "chat" THEN ChatResponse ELSE SpeechResponse
    /\ running' = running - 1
    /\ endpoint' = "none"
    /\ UNCHANGED << messages, sql_query, db_result, error, retry_count, intent,
                    router_remarks, last_limit, last_offset, last_sql, pc, turn,
                    executed, nFail, path, generated, before, classified,
                    snapshot, raised, waiting, speech_result, threads >>

ServiceNext ==
    \/ Arrive
    \/ ChatEndpoint
    \/ ProcessSpeech
    \/ ServiceClassifyIntent
    \/ DirectResponse
    \/ ServiceGenerateSql
    \/ ExecuteSql
    \/ ServiceRepairSql
    \/ Synthesize
    \/ SynthesizeFailure
    \/ GatewayRaises
    \/ Return

Service == Init /\ [][ServiceNext]_vars

\* One step of the graph: the node at pc runs and the edge out of it is
\* followed.
NodeStep ==
    \/ ServiceClassifyIntent
    \/ DirectResponse
    \/ ServiceGenerateSql
    \/ ExecuteSql
    \/ ServiceRepairSql
    \/ Synthesize
    \/ SynthesizeFailure

\* The service on the assumption that the model and the database answer
\* every call: agent_graph.invoke is a loop that runs the next node as soon
\* as the one before it has returned.
ServiceFair == Service /\ WF_vars(NodeStep)

\* ------------------------------------------------------------------ sessions

\* What InMemorySaver holds for the thread of session s when a request of s
\* is taken up.
Checkpoint(s) ==
    IF ThreadOf(s) = ThreadOf(session) THEN TurnState ELSE store[ThreadOf(s)]

\* The handler e resumes after its await for a request of session s and
\* calls agent_graph.invoke with thread_id s: the graph starts from what the
\* checkpointer holds under that key, and what the turns of the session
\* served before wrote stays under its own key.
HandleFor(e, s) ==
    /\ waiting > 0
    /\ LoopIsFree
    /\ waiting' = waiting - 1
    /\ running' = running + 1
    /\ endpoint' = e
    /\ raised' = None
    /\ reply' = NoReply
    /\ speech_result' = Utterance
    /\ store' = [store EXCEPT ![ThreadOf(session)] = TurnState]
    /\ mine' = [mine EXCEPT ![session] = TurnState]
    /\ session' = s
    /\ LET st == Checkpoint(s)
       IN  /\ snapshot' = st
           /\ messages' = Append(st.messages, HumanMessage(turn + 1))
           /\ sql_query' = st.sql_query
           /\ db_result' = st.db_result
           /\ error' = st.error
           /\ retry_count' = st.retry_count
           /\ intent' = st.intent
           /\ router_remarks' = st.router_remarks
           /\ last_sql' = st.last_sql
           /\ last_limit' = st.last_limit
           /\ last_offset' = st.last_offset
           /\ before' = [last_sql |-> st.last_sql, last_limit |-> st.last_limit,
                         last_offset |-> st.last_offset]
    /\ turn' = turn + 1
    /\ pc' = "classify_intent"
    /\ path' = <<>>
    /\ nFail' = 0
    /\ executed' = None
    /\ generated' = None
    /\ classified' = None

ChatSession == \E s \in SessionIds : HandleFor("chat", s)

\* What llm.invoke returns in the turns of the sessions: a direct reply, a
\* search, a continuation; a query, which runs or fails in the database.
SessionClassifierCompletions ==
    { <<"GREETING", ":", GreetingText>>,
      <<"SEARCH", "|", "hospitals in Delhi">>,
      <<"PAGINATION">> }

SessionGenCompletions(lim, off) ==
    { Query \o <<"LIMIT", Str(lim)>> }

SessionRepairCompletions == { Query }

SessionClassifyIntent == ClassifyIntentOn(SessionClassifierCompletions)

SessionGenerateSql ==
    GenerateSqlOn(SessionGenCompletions(PromptLimit, PromptOffset))

SessionRepairSql == RepairSqlOn(SessionRepairCompletions)

SpeechSession == \E s \in SessionIds : HandleFor("speech", s)

SessionsNext ==
    \/ Arrive
    \/ ChatSession
    \/ SpeechSession
    \/ SessionClassifyIntent
    \/ DirectResponse
    \/ SessionGenerateSql
    \/ ExecuteSql
    \/ SessionRepairSql
    \/ Synthesize
    \/ SynthesizeFailure
    \/ GatewayRaises
    \/ Return

\* The service with requests of several sessions.
Sessions == Init /\ [][SessionsNext]_vars

\* ------------------------------------------------------------------ properties

Count(node) == Cardinality({ i \in DOMAIN path : path[i] = node })

LastNode == IF path = <<>> THEN "none" ELSE path[Len(path)]

LastMessage == messages[Len(messages)]

\* The statement's leading keyword, upper case.
LeadingKeyword(s) == IF s = <<>> THEN "" ELSE UpperTok(s[1])

\* The n of the statement's LIMIT n clause; Unset when it has none.
LimitOf(s) == IF LimitMatches(s) = {} THEN Unset ELSE SyncLimit(s, Unset)

\* The m of the statement's OFFSET m clause; 0 (no row skipped) without one.
OffsetOf(s) ==
    LET at == { i \in 1..(Len(s) - 1) : UpperTok(s[i]) = "OFFSET" /\ IsNum(s[i + 1]) }
        first == CHOOSE i \in at : \A j \in at : i <= j
    IN  IF at = {} THEN 0 ELSE ToInt(s[first + 1])

\* The texts of errors raised by the database or by the gate.
ErrorTexts == { SecurityError, NoSuchTable, SyntaxError, DatabaseLocked }

\* execute_sql_node has just run.
JustExecuted == LastNode = "execute_sql"

\* C1 (as claimed): a statement whose leading keyword is not SELECT is never
\* handed to the database; execute_sql_node sets error and leaves db_result
\* None without opening a connection.
C1_GateByKeyword ==
    (JustExecuted /\ LeadingKeyword(sql_query) # "SELECT")
        => (executed = None /\ error = SecurityError /\ db_result = None)

\* C2 (as claimed): execute_sql_node never runs a third time in a turn, and
\* after two failed runs the turn is in synthesize_failure or has ended there.
C2_TwoExecutions ==
    /\ Count("execute_sql") <= 2
    /\ nFail >= 2 => \/ pc = "synthesize_failure"
                     \/ pc = "END" /\ LastNode = "synthesize_failure"

\* C2 (amended): execute_sql_node never runs a fourth time in a turn; a
\* failed run short of the third is followed by repair_sql; after three
\* failed runs the turn ends in synthesize_failure with the fixed failure
\* message, unless the query is the sentinel CLARIFY, which ends the turn in
\* synthesize.
C2_ThreeExecutions ==
    /\ Count("execute_sql") <= 3
    /\ (JustExecuted /\ error # None /\ sql_query # <<"CLARIFY">>)
          => pc = IF Count("execute_sql") < 3 THEN "repair_sql" ELSE "synthesize_failure"
    /\ (nFail = 3 /\ sql_query # <<"CLARIFY">> /\ pc = "END")
          => /\ LastNode = "synthesize_failure"
             /\ LastMessage = AIMessage(FailureMsg)
    /\ (nFail = 3 /\ sql_query = <<"CLARIFY">>) => pc \in {"synthesize", "END"}

\* C2 (witness): a turn that ended after three failed executions.
C2_Witness ==
    /\ pc = "END"
    /\ nFail = 3
    /\ Count("execute_sql") = 3
    /\ LastNode = "synthesize_failure"
    /\ LastMessage = AIMessage(FailureMsg)

\* C3: retry_count (0 while unset, as the router reads it) is between 0 and
\* 2 in every state; execute_sql and the router never see more than 2, and
\* repair_sql is never entered with 2 or more.
C3_RetryCountBounded ==
    /\ retry_count \in {Unset} \cup 0..2
    /\ GetRetryCount(retry_count) \in 0..2
    /\ pc = "repair_sql" => retry_count \in 0..1
    /\ pc = "execute_sql" => retry_count \in 0..2

\* C3 (witness): execute_sql_node is about to run for the second repair.
C3_Witness == pc = "execute_sql" /\ retry_count = 2 /\ Count("repair_sql") = 2

\* C4 (as claimed): every statement handed to the database has a LIMIT
\* clause.
C4_LimitAlwaysPresent == executed # None => LimitOf(executed) # Unset

\* generate_sql_node has run in this turn.
GenRan == generated # None

\* The turn is a pagination continuation: the remarks the classifier wrote
\* contain PAGINATION and last_sql was not empty when the turn began.
Continuation == GenRan /\ IsContinuation(router_remarks, before.last_sql)

\* last_offset + last_limit as they stood when the turn began.
NextOffset == GetLastOffset(before.last_offset) + GetLastLimit(before.last_limit)

\* C5 (as claimed): on every pagination continuation the last_offset stored
\* by generate_sql_node is the previous last_offset plus the previous
\* last_limit.
C5_OffsetAdvances == Continuation => last_offset = NextOffset

\* C5 (amended): it is so on every pagination continuation on which
\* generate_sql_node does not yield CLARIFY; on one on which it does, the
\* cursor stays as it was.
C5_OffsetAdvancesUnlessClarify ==
    /\ (Continuation /\ generated # <<"CLARIFY">>) => last_offset = NextOffset
    /\ (Continuation /\ generated = <<"CLARIFY">>) => cursor = before

\* C5 (witness): the second of two consecutive pagination turns of page size
\* 5 has left last_offset = 10.
C5_Witness ==
    /\ Continuation
    /\ generated # <<"CLARIFY">>
    /\ before.last_limit = 5
    /\ before.last_offset = 5
    /\ last_limit = 5
    /\ last_offset = 10
    /\ pc = "END"

\* C6 (as claimed): on a pagination continuation the statement executed
\* carries LIMIT = previous last_limit and OFFSET = previous last_offset +
\* previous last_limit, whatever the model returned.
C6_ExecutedPage ==
    (Continuation /\ executed # None)
        => /\ LimitOf(executed) = GetLastLimit(before.last_limit)
           /\ OffsetOf(executed) = NextOffset

\* C7 (as claimed): generate_sql_node leaves last_offset = 0 on every turn
\* that is not a pagination continuation.
C7_OffsetReset == (GenRan /\ ~Continuation) => GetLastOffset(last_offset) = 0

\* C7 (amended): it does so unless it yields CLARIFY, which leaves
\* last_offset as it was; a PAGINATION signal with last_sql empty counts as
\* a fresh search.
C7_OffsetResetUnlessClarify ==
    /\ (GenRan /\ ~Continuation /\ generated # <<"CLARIFY">>) => last_offset = 0
    /\ (GenRan /\ ~Continuation /\ generated = <<"CLARIFY">>)
          => last_offset = before.last_offset
    /\ (GenRan /\ IsPagination(router_remarks) /\ before.last_sql = <<>>
           /\ generated # <<"CLARIFY">>) => last_offset = 0

\* C7 (witness): a search that follows a pagination sequence has reset the
\* offset.
C7_Witness ==
    /\ GenRan
    /\ ~IsPagination(router_remarks)
    /\ generated # <<"CLARIFY">>
    /\ before.last_offset > 0
    /\ last_offset = 0

\* C8 (as claimed): a turn that ends in synthesize_failure leaves the cursor
\* as it was before the turn.
C8_FailedTurnKeepsCursor ==
    (pc = "END" /\ LastNode = "synthesize_failure") => cursor = before

NoErrorTextInHistory ==
    \A i \in DOMAIN messages : messages[i].content \notin ErrorTexts

\* Every run of execute_sql_node in the turn that has ended set error.
AllExecutionsFailed ==
    pc = "END" /\ Count("execute_sql") >= 1 /\ nFail = Count("execute_sql")

Keywords == {"GREETING", "HANDOFF", "UNCLEAR", "REJECT", "PAGINATION", "SEARCH"}

\* The nodes that write, run or rewrite SQL.
SqlNodes == {"generate_sql", "execute_sql", "repair_sql"}

\* No node of SqlNodes has run in the turn and none is about to.
NoSqlStep == (\A n \in SqlNodes : Count(n) = 0) /\ pc \notin SqlNodes

\* The classifier has answered in this turn, and its completion (stripped,
\* as the node reads it) begins with none of the keywords.
Unrecognised ==
    classified # None /\ \A k \in Keywords : ~StartsWith(classified, k)

\* C11: a turn whose classifier completion begins with none of the keywords
\* (in either case) has intent direct and the fixed clarification as its
\* reply, goes from classify_intent to direct_response, and runs none of
\* generate_sql, execute_sql, repair_sql.
C11_UnrecognisedIsDirect ==
    Unrecognised
        => /\ intent = "direct"
           /\ db_result = FallbackReply
           /\ NoSqlStep
           /\ pc \in {"direct_response", "END"}
           /\ pc = "END" => /\ path = <<"classify_intent", "direct_response">>
                            /\ LastMessage = AIMessage(FallbackReply)

\* C11 (witness): a completion that names SEARCH, but not at its start, has
\* been answered with the clarification.
C11_Witness ==
    /\ classified = <<"I will", "SEARCH", "|", "hospitals in Delhi">>
    /\ Unrecognised
    /\ pc = "END"
    /\ LastMessage = AIMessage(FallbackReply)

\* The keywords whose completions carry the reply itself.
DirectKeywords == {"GREETING", "HANDOFF", "UNCLEAR", "REJECT"}

\* The classifier's completion of this turn has the form KEYWORD: text.
DirectForm ==
    /\ classified # None
    /\ Len(classified) >= 2
    /\ UpperTok(classified[1]) \in DirectKeywords
    /\ classified[2] = ":"

\* The text of such a completion: what follows its first colon, trimmed.
TextOf == Strip(SubSeq(classified, 3, Len(classified)))

\* C12: a turn whose classifier completion is 'REJECT: text' (likewise
\* GREETING, UNCLEAR, HANDOFF) runs classify_intent and direct_response and
\* nothing else, and the assistant message it appends is text, the part
\* after the first colon with the white space around it removed.
C12_DirectReplyIsText ==
    DirectForm
        => /\ db_result = TextOf
           /\ NoSqlStep
           /\ pc \in {"direct_response", "END"}
           /\ pc = "END" => /\ path = <<"classify_intent", "direct_response">>
                            /\ LastMessage = AIMessage(TextOf)

\* C12 (witness): a completion in lower case, with white space after its
\* first colon and a second colon in its text, has been answered.
C12_Witness ==
    /\ DirectForm
    /\ classified[1] = "unclear"
    /\ pc = "END"
    /\ LastMessage = AIMessage(<<"Could you repeat", ":", "the city?">>)

\* The nodes from which the graph goes to END.
TerminalNodes == {"direct_response", "synthesize", "synthesize_failure"}

\* How many times a terminal node has run in the turn.
TerminalRuns ==
    Count("direct_response") + Count("synthesize") + Count("synthesize_failure")

\* The graph has run the turn to its end (agent_graph.invoke has returned).
TurnCompleted == pc = "END" /\ turn > 0 /\ raised = None

\* The history as it stood when the turn began.
HistoryBefore == snapshot.messages

\* C13: a turn that completes has run exactly one terminal node, once, as
\* its last node, and has appended exactly one assistant message; the
\* history only grows at its end, by the utterance when the turn begins and
\* by the reply when it completes, two messages per completed turn.
C13_OneReplyPerTurn ==
    turn > 0
        => /\ SubSeq(messages, 1, Len(HistoryBefore)) = HistoryBefore
           /\ messages[Len(HistoryBefore) + 1] = HumanMessage(turn)
           /\ TurnCompleted
                 => /\ TerminalRuns = 1
                    /\ LastNode \in TerminalNodes
                    /\ messages = HistoryBefore \o << HumanMessage(turn), LastMessage >>
                    /\ LastMessage.role = "ai"
           /\ ~TurnCompleted
                 => /\ TerminalRuns = 0
                    /\ messages = Append(HistoryBefore, HumanMessage(turn))

\* C13 (witness): the second of two completed turns has ended in
\* synthesize_failure after the first ended in direct_response.
C13_Witness ==
    /\ TurnCompleted
    /\ turn = 2
    /\ Len(messages) = 4
    /\ LastNode = "synthesize_failure"
    /\ messages[2].content = <<RejectText>>
    /\ messages[4] = AIMessage(FailureMsg)

\* The nodes outside the repair loop.
OnceNodes ==
    {"classify_intent", "direct_response", "generate_sql", "synthesize",
     "synthesize_failure"}

\* The longest turn the routing allows.
LongestPath ==
    << "classify_intent", "generate_sql", "execute_sql", "repair_sql",
       "execute_sql", "repair_sql", "execute_sql", "synthesize_failure" >>

LongestTurn == Len(LongestPath)

\* In a turn some node can always run, at most LongestTurn nodes run, and
\* none outside the repair loop runs twice.
BoundedTurn ==
    /\ pc # "END" => ENABLED NodeStep
    /\ Len(path) <= LongestTurn
    /\ Len(path) = LongestTurn => pc = "END"
    /\ \A n \in OnceNodes : Count(n) <= 1
    /\ Count("execute_sql") <= 3
    /\ Count("repair_sql") <= 2

\* C14: given that the model and the database answer every call, every turn
\* that starts at classify_intent reaches END from a terminal node (a turn
\* in which llm.invoke raises is outside the assumption), whatever the
\* completions and the outcomes of the database; no node outside the repair
\* loop runs twice in a turn.
C14_TurnTerminates ==
    /\ []BoundedTurn
    /\ pc = "classify_intent"
          ~> ((TurnCompleted /\ LastNode \in TerminalNodes) \/ raised # None)

\* C14 (witness): a turn of LongestTurn nodes has ended.
C14_Witness ==
    /\ TurnCompleted
    /\ path = LongestPath
    /\ Len(path) = LongestTurn

\* The keys of the state that C15 is about.
Stored(st) ==
    [messages |-> st.messages, sql_query |-> st.sql_query,
     db_result |-> st.db_result, error |-> st.error,
     retry_count |-> st.retry_count, last_sql |-> st.last_sql,
     last_limit |-> st.last_limit, last_offset |-> st.last_offset]

\* agent_graph.invoke has raised in this turn.
TurnRaised == pc = "END" /\ raised # None

\* C15 (as claimed): after a turn in which llm.invoke raised, in whichever
\* node, the state the checkpointer holds for the thread (history,
\* sql_query, db_result, error, retry_count, last_sql, last_limit,
\* last_offset) is the state it held before the turn.
C15_NoPartialWrites == TurnRaised => Stored(TurnState) = Stored(snapshot)

\* C15 (the part that holds): the node in which llm.invoke raised wrote
\* nothing, so what is stored is what the nodes before it left; the history
\* holds the utterance and no reply.
C15_RaisingNodeWritesNothing ==
    TurnRaised
        => /\ messages = Append(snapshot.messages, HumanMessage(turn))
           /\ LastNode \notin TerminalNodes
           /\ ~GenRan => Stored(TurnState) = [Stored(snapshot) EXCEPT !.messages = messages]

\* A turn in which the model failed in synthesize_node, after
\* generate_sql_node had advanced the cursor of a pagination.
C15_CursorMovedByFailedTurn ==
    /\ TurnRaised
    /\ LastNode = "execute_sql"
    /\ snapshot.last_offset = 0
    /\ last_offset = 5

\* The texts of exceptions, raised by the database, the gate or the gateway.
RawErrorTexts == ErrorTexts \cup {GatewayError}

\* The fixed replies of the service.
FixedReplies == {FallbackReply, FailureMsg, ConnectTrouble, HoldMsg, RepeatPrompt}

\* The answer of the last turn, if the history holds a message.
Answer == IF messages = <<>> THEN {} ELSE {ai_message}

\* A handler has returned to its caller.
Replied == reply # NoReply

\* C16 (as claimed): what a handler returns to its caller is a fixed reply
\* or the answer of the turn (the last message of the history), with status
\* 200; it is never the text of an exception and never the SQL of the turn.
C16_NoRawErrorToCaller ==
    Replied
        => /\ reply.status = 200
           /\ reply.say \in FixedReplies \cup Answer
           /\ reply.say \notin RawErrorTexts \cup {sql_query, last_sql}

\* The same, of /process_speech alone.
C16_SpeechNeverRaw ==
    (Replied /\ reply.then # "audio" /\ reply.then # "error")
        => /\ reply.status = 200
           /\ reply.say \in FixedReplies \cup Answer
           /\ reply.say \notin RawErrorTexts \cup {sql_query, last_sql}

\* The turn under way is the one the running handler began: since it read
\* the thread, the history has gained its utterance and nothing else.
OwnTurn == SubSeq(messages, 1, Len(snapshot.messages) + 1)
               = Append(snapshot.messages, HumanMessage(turn))

\* C17: at most one handler of the session is between its call of
\* agent_graph.invoke and its return; every step of the graph belongs to
\* that handler's turn, started from the state the handler read; a request
\* that arrives meanwhile waits until the handler has returned.
C17_NoInterleaving ==
    /\ running <= 1
    /\ pc # "END" => (running = 1 /\ endpoint # "none")
    /\ running = 1 => (OwnTurn /\ before = [last_sql |-> snapshot.last_sql,
                                            last_limit |-> snapshot.last_limit,
                                            last_offset |-> snapshot.last_offset])
    /\ running = 0 => (pc = "END" /\ endpoint = "none")

\* C17 (witness): a second request of the session has arrived while the
\* graph is in the middle of the turn of the first, and waits.
C17_Witness ==
    /\ waiting = 1
    /\ running = 1
    /\ pc = "execute_sql"
    /\ turn = 1
    /\ IsPagination(router_remarks)

\* C18 (as claimed): in every state sql_query is None, the sentinel CLARIFY,
\* or a statement whose leading keyword is SELECT.
C18_SqlQueryShape ==
    \/ sql_query = None
    \/ sql_query = <<"CLARIFY">>
    \/ LeadingKeyword(sql_query) = "SELECT"

\* C18 (amended): sql_query holds whatever generate_sql_node or
\* repair_sql_node made of the model's text, SELECT or not; what holds is
\* that a text which does not begin with the letters SELECT is rejected by
\* execute_sql_node (error set, db_result None, nothing handed to the
\* database), that every statement handed to the database begins with them,
\* and that a generated text which contains SELECT begins with it.
C18_SqlQueryGated ==
    /\ (JustExecuted /\ ~StartsWithSELECT(sql_query))
          => (executed = None /\ error = SecurityError /\ db_result = None)
    /\ executed # None => StartsWithSELECT(executed)
    /\ (JustExecuted /\ executed # None) => executed = sql_query
    /\ (GenRan /\ ContainsSELECT(generated)) => StartsWithSELECT(generated)

\* C18 (witness): repair_sql_node has stored a DROP statement and
\* execute_sql_node has rejected it.
C18_Witness ==
    /\ JustExecuted
    /\ Count("repair_sql") >= 1
    /\ sql_query = <<"DROP", "TABLE", "hospitals">>
    /\ executed = None
    /\ error = SecurityError

\* repair_sql_node has just replaced the query.
JustRepaired == LastNode = "repair_sql"

\* C19 (as claimed): when repair_sql_node has replaced the query, last_sql
\* is the repaired query and last_limit the number of its LIMIT clause.
C19_RepairResyncsCursor ==
    JustRepaired
        => /\ last_sql = sql_query
           /\ LimitOf(sql_query) # Unset => last_limit = LimitOf(sql_query)

\* What repair_sql_node does to the cursor: nothing; after a repair last_sql
\* is still the query generate_sql_node stored, the one that failed.
C19_RepairKeepsGeneratedCursor ==
    (JustRepaired /\ generated # <<"CLARIFY">>)
        => (last_sql = generated /\ last_offset = CurrentOffset(router_remarks,
                before.last_sql, before.last_limit, before.last_offset))

\* A turn has ended with an answer drawn from a repaired query while
\* last_sql names the table that does not exist.
C19_StaleCursorAfterRepair ==
    /\ pc = "END"
    /\ LastNode = "synthesize"
    /\ Count("repair_sql") = 1
    /\ executed = Query
    /\ last_sql = <<"select", "*", "FROM", "wards", "LIMIT", "5">>

\* execute_sql_node is about to run for the first time in the turn.
FirstExecution == pc = "execute_sql" /\ Count("execute_sql") = 0

\* C20 (as claimed): at the first execute_sql of a turn retry_count is 0,
\* and over the turn it changes by the repairs alone, by one at each.
C20_OnlyRepairChangesRetryCount ==
    /\ FirstExecution => retry_count = 0
    /\ turn > 0 => GetRetryCount(retry_count)
                      = GetRetryCount(snapshot.retry_count) + Count("repair_sql")

\* C20 (amended): at the first execute_sql of a turn retry_count is 0,
\* whatever it was when the turn began; it is generate_sql_node that sets it
\* to 0, repair_sql_node adds one at each run, and no other node changes it.
C20_RetryBudgetPerTurn ==
    /\ FirstExecution => retry_count = 0
    /\ GenRan => retry_count = Count("repair_sql")
    /\ (turn > 0 /\ ~GenRan) => retry_count = snapshot.retry_count

\* C20 (witness): the turn before ended with the budget spent, and this
\* turn is at its first execute_sql with retry_count back at 0.
C20_Witness ==
    /\ FirstExecution
    /\ snapshot.retry_count = 2
    /\ snapshot.error # None
    /\ retry_count = 0

\* ------------------------------------------------------------------ C21

\* The serialisations execute_sql_node stores for a statement that ran.
Serialisations == { Rows, NoResults }

\* synthesize_node is about to run on a statement (not on the sentinel).
SynthesizeEntered == pc = "synthesize" /\ sql_query # <<"CLARIFY">>

\* C21: whenever synthesize_node is entered with a statement other than the
\* sentinel CLARIFY, error is None and db_result is the serialisation (rows,
\* or "No results found.") of an execution of that statement which succeeded
\* as the last step of the current turn; and right after every execute_sql_node
\* exactly one of db_result and error is set.
C21_SynthesizeSeesFreshResult ==
    /\ SynthesizeEntered =>
          /\ error = None
          /\ db_result \in Serialisations
          /\ JustExecuted
          /\ executed = sql_query
          /\ \E out \in DbOutcomes(sql_query) : out.ok /\ out.text = db_result
    /\ JustExecuted => ((db_result = None) # (error = None))

\* C21 (witness): synthesize_node is entered in the second turn with the
\* marker of an empty result set, after a repair in that turn.
C21_Witness ==
    /\ SynthesizeEntered
    /\ turn = 2
    /\ db_result = NoResults
    /\ Count("repair_sql") = 1
    /\ error = None

\* ------------------------------------------------------------------ C22

\* classify_intent_node has run in the current turn and did not choose search:
\* the turn goes to direct_response_node.
DirectTurn == classified # None /\ intent # "search"

\* The offset generate_sql_node would ask for on a pagination turn that
\* starts from the cursor c.
PaginationFrom(c) ==
    CurrentOffset(<<"PAGINATION">>, c.last_sql, c.last_limit, c.last_offset)

\* C22: a turn routed to direct_response_node (intent direct or handoff)
\* leaves sql_query, error, retry_count, last_sql, last_limit and last_offset
\* as they were when the turn began, so a pagination turn that follows
\* continues from the offset it would have continued from without it.
C22_DirectTurnFrame ==
    DirectTurn =>
        /\ sql_query = snapshot.sql_query
        /\ error = snapshot.error
        /\ retry_count = snapshot.retry_count
        /\ last_sql = snapshot.last_sql
        /\ last_limit = snapshot.last_limit
        /\ last_offset = snapshot.last_offset
        /\ PaginationFrom(cursor) = PaginationFrom(snapshot)

\* C22 (witness): a direct turn has ended after a search turn that left a
\* query, a cursor and a repair count behind.
C22_Witness ==
    /\ DirectTurn
    /\ pc = "END"
    /\ LastNode = "direct_response"
    /\ turn = 2
    /\ last_sql # <<>>
    /\ retry_count = 2
    /\ sql_query # None
    /\ PaginationFrom(cursor) = DefaultLimit

\* ------------------------------------------------------------------ C23

\* The sessions other than the one whose turn is being, or was last, processed.
OtherSessions == SessionIds \ {session}

\* History, pagination cursor and retry counter of a stored state.
Kept(st) ==
    [messages |-> st.messages, last_sql |-> st.last_sql,
     last_limit |-> st.last_limit, last_offset |-> st.last_offset,
     retry_count |-> st.retry_count]

\* C23: a turn processed for one session id changes only the state of that
\* session: what the checkpointer holds for every other session id (history,
\* pagination cursor, retry counter, and every other key) is what that
\* session's own last turn left, whatever turns other sessions have had
\* since; and the turn of a session starts from what that session left.
C23_SessionIsolation ==
    /\ \A b \in OtherSessions : store[ThreadOf(b)] = mine[b]
    /\ turn > 0 => snapshot = mine[session]

\* C23 (witness): session_b has had a direct turn after session_a's search
\* turn, which left a history, a cursor and a repair count that the
\* checkpointer still holds for session_a.
C23_Witness ==
    /\ session = "session_b"
    /\ pc = "END"
    /\ turn = 2
    /\ Len(messages) = 2
    /\ last_sql = <<>>
    /\ Kept(store["session_a"]).last_sql # <<>>
    /\ Kept(store["session_a"]).retry_count = 2
    /\ Len(Kept(store["session_a"]).messages) = 2

\* ------------------------------------------------------------------ C24

\* The post-processing as C24 describes it: the fences removed, the text
\* before the first SELECT cut, a LIMIT clause appended when there is none,
\* and nothing else touched.
FencesCutAndLimit(completion, is_pagination, current_limit, current_offset) ==
    EnforceLimit(CutToSELECT(Strip(RemoveFences(completion))), is_pagination,
                 current_limit, current_offset)

\* What generate_sql_node was given in this turn: the flag is_pagination, and
\* the limit and the offset computed from the cursor the turn began with.
GenIsPagination == IsPagination(router_remarks)

GenLimit == GetLastLimit(before.last_limit)

GenOffset ==
    CurrentOffset(router_remarks, before.last_sql, before.last_limit,
                  before.last_offset)

\* C24: the statement generate_sql_node stores is a completion of the model
\* changed only by removing code fences, cutting the text before the first
\* SELECT and appending a LIMIT/OFFSET clause when none is present; the rest
\* of the statement, string literals included, is as the model produced it.
C24_OnlyFencesCutAndLimit ==
    (GenRan /\ generated # <<"CLARIFY">>) =>
        \E completion \in GenCompletions(GenLimit, GenOffset) :
            generated = FencesCutAndLimit(completion, GenIsPagination,
                                          GenLimit, GenOffset)

\* What holds instead: the stored statement is the completion with the fences
\* and, besides, every occurrence of the characters "ite" removed.
C24_IteRemovedToo ==
    (GenRan /\ generated # <<"CLARIFY">>) =>
        \E completion \in GenCompletions(GenLimit, GenOffset) :
            generated = EnforceLimit(CutToSELECT(CleanGenerated(completion)),
                                     GenIsPagination, GenLimit, GenOffset)

\* The state that refutes C24: the statement handed to sqlite3 carries a
\* literal the model did not produce.
C24_LiteralAltered ==
    /\ executed # None
    /\ \E i \in DOMAIN executed : executed[i] = "'%Wh%'"
    /\ db_result = NoResults

\* ------------------------------------------------------------------ C25

\* C25: whenever synthesize_node runs, the model is sent exactly two
\* messages, the synthesis system prompt and the last element of the
\* history, and that element is the utterance of the current turn: a message
\* of the user, not of the assistant, and not one of an earlier turn.
C25_SynthesisSeesCurrentUtterance ==
    pc = "synthesize" =>
        LET sent == SynthesisInput(messages)
        IN  /\ Len(sent) = 2
            /\ sent[1] = SynthesisPrompt
            /\ sent[2] = messages[Len(messages)]
            /\ sent[2].role = "human"
            /\ sent[2] = HumanMessage(turn)
            /\ \A n \in 1..(turn - 1) : sent[2] # HumanMessage(n)

\* C25 (witness): synthesize_node is about to run in the second turn, on a
\* history that holds the first turn's utterance and the reply to it.
C25_Witness ==
    /\ pc = "synthesize"
    /\ turn = 2
    /\ Len(messages) = 3
    /\ messages[1] = HumanMessage(1)
    /\ messages[2].role = "ai"

\* ------------------------------------------------------------------ C26

\* process_speech has answered a request that carried an utterance, and the
\* turn it ran was not cut short by an exception.
SpeechTurnAnswered ==
    /\ Replied
    /\ reply.then \in {"hangup", "dial", "gather"}
    /\ speech_result # <<>>
    /\ TurnCompleted
    /\ classified # None

\* The verb the intent of the turn calls for.
DispositionOf(response) ==
    IF StartsWith(response, "REJECT") THEN "hangup"
    ELSE IF StartsWith(response, "HANDOFF") THEN "dial"
    ELSE "gather"

\* C26: in /process_speech the disposition of the call follows the intent of
\* the turn: a turn the classifier marked REJECT ends the call with Hangup, a
\* turn marked HANDOFF redirects it with Dial, and every other completed turn
\* re-opens a Gather.
C26_DispositionFollowsIntent ==
    SpeechTurnAnswered => reply.then = DispositionOf(classified)

\* What holds instead: the disposition follows the wording of the reply.
C26_DispositionFollowsWording ==
    SpeechTurnAnswered =>
        reply.then = IF HasForwarding(ai_message) THEN "hangup"
                     ELSE IF HasHandoff(ai_message) THEN "dial"
                     ELSE "gather"

\* The state that refutes C26: a turn marked REJECT after which the call
\* goes on listening.
C26_RejectKeepsListening ==
    /\ SpeechTurnAnswered
    /\ StartsWith(classified, "REJECT")
    /\ reply.then = "gather"

\* ------------------------------------------------------------------ C27

\* The step in which process_speech takes up a request whose SpeechResult is
\* empty.
SilenceHandled == speech_result' = <<>> /\ waiting' = waiting - 1

\* C27: in /process_speech an empty SpeechResult does not invoke the graph:
\* the handler answers with a new Gather that asks the caller to repeat, the
\* state of the session (history, cursor, retry_count and every other key)
\* is unchanged, no turn is counted and the call is not ended.
C27_SilenceInvokesNothing ==
    [][ SilenceHandled =>
            /\ TurnState' = TurnState
            /\ turn' = turn
            /\ pc' = pc
            /\ running' = running
            /\ reply' = [status |-> 200, say |-> RepeatPrompt, then |-> "gather"]
      ]_vars

\* C27 (witness): the caller stayed silent after a search turn that left a
\* history, a cursor and a repair count; the handler has asked to repeat.
C27_Witness ==
    /\ speech_result = <<>>
    /\ reply.say = RepeatPrompt
    /\ reply.then = "gather"
    /\ turn = 1
    /\ Len(messages) = 2
    /\ last_sql # <<>>
    /\ retry_count = 2
    /\ pc = "END"

\* ------------------------------------------------------------------ C28

\* The router_remarks classify_intent_node returned in the current turn
\* (None when its branch returns no such key).
RemarksOfThisTurn == classify_intent_node(classified).router_remarks

\* C28: router_remarks is cleared each turn: at the end of a turn that was
\* not classified as search it holds no instruction of an earlier turn, and
\* generate_sql_node reads only the router_remarks that classify_intent_node
\* wrote in the same turn.
C28_RemarksClearedEachTurn ==
    /\ (DirectTurn /\ pc = "END") => router_remarks = None
    /\ (classified # None /\ pc = "generate_sql") =>
           router_remarks = RemarksOfThisTurn

\* The half of C28 that holds: generate_sql_node runs only after
\* classify_intent_node has written router_remarks in the same turn.
C28_GenerateReadsOwnRemarks ==
    /\ pc = "generate_sql" => (classified # None /\ RemarksOfThisTurn # None)
    /\ (pc = "generate_sql" \/ GenRan) => router_remarks = RemarksOfThisTurn

\* The state that refutes C28: a direct turn has ended and router_remarks
\* still holds the instruction of the search turn before it.
C28_StaleRemarks ==
    /\ DirectTurn
    /\ pc = "END"
    /\ LastNode = "direct_response"
    /\ RemarksOfThisTurn = None
    /\ router_remarks = <<"hospitals in Delhi">>
    /\ router_remarks = snapshot.router_remarks

====
